---- MODULE Spec2Model ----
(***************************************************************************)
(* Model of the incremental synchronizer of src/src/blockchain_sync.py:    *)
(* class BlockchainSync (the in-memory last_synced_height, the SQLite      *)
(* store with its blocks / transactions / inputs / outputs tables, one     *)
(* sync_latest_blocks pass) together with the node it polls over JSON-RPC. *)
(***************************************************************************)
EXTENDS Integers, Sequences, FiniteSets, TLC

\* ----------------------------------------------------------------------
\* Bounds of the model
\* ----------------------------------------------------------------------
MaxHeight == 2
MaxRestarts == 1
MaxFaults == 1

\* The store holds at most this many block rows; a full store fails every
\* further INSERT.
MaxBlockRows == MaxHeight

\* ----------------------------------------------------------------------
VARIABLES
    store,               \* committed content of bitcoin.db
    txn,                 \* the open connection's view (store + uncommitted rows)
    last_synced_height,  \* self.last_synced_height
    pc,                  \* position of the process inside sync_latest_blocks
    current_height,      \* local current_height
    prune_height,        \* local prune_height
    start_height,        \* local start_height
    height,              \* loop variable height
    block_data,          \* local block_data (the getblock result)
    calls,               \* RPC calls issued by the pass in progress / last pass
    chain,               \* node: height of the chain tip
    prune,               \* node: lowest height whose block data it still has
    restarts,            \* number of process restarts so far
    faults,              \* number of block stores in which a nested insert failed
    ev,                  \* last step of the engine: [kind, h, rows_failed]
    pass,                \* what the pass in progress / last pass started from
    skipped              \* heights the engine passed over because of pruning

vars == <<store, txn, last_synced_height, pc, current_height, prune_height,
          start_height, height, block_data, calls, chain, prune, restarts,
          faults, ev, pass, skipped>>

Heights == 0..MaxHeight

Max(a, b) == IF a >= b THEN a ELSE b

SetMax(S) == CHOOSE x \in S : \A y \in S : y <= x

\* ----------------------------------------------------------------------
\* The node
\* ----------------------------------------------------------------------
PrunedText == "Block not available (pruned data)"

\* What an HTTP exchange with the node can come back as.
RpcResponses == {"result", "error_pruned", "error_other", "http_error", "bad_json"}

\* A key of a JSON object that may be missing: << >> when it is, <<v>> when
\* it is there with value v.
Absent == << >>
Present(v) == <<v>>

BlockHash(h) == <<"hash", h>>

\* getblock(h, 2): every block has a coinbase transaction, which has no fee;
\* the block at height 2 carries a second transaction, with a fee and a
\* two-address output, and its coinbase output has no address list.
NodeBlock(h) ==
    [height |-> h,
     previousblockhash |-> IF h = 0 THEN Absent ELSE Present(BlockHash(h - 1)),
     nextblockhash |-> Present(BlockHash(h + 1)),
     tx |-> IF h = 2
            THEN << [vin |-> 1, vout |-> 1, fee |-> Absent,
                     addresses |-> << Absent >>],
                    [vin |-> 1, vout |-> 1, fee |-> Present(7),
                     addresses |-> << Present(<<"a2", "a3">>) >>] >>
            ELSE << [vin |-> 1, vout |-> 1, fee |-> Absent,
                     addresses |-> << Present(<<"a1">>) >>] >>,
     wellformed |-> TRUE]

\* The block at the tip of the chain has no nextblockhash.
TipBlock(h) == [NodeBlock(h) EXCEPT !.nextblockhash = Absent]

\* A payload that lacks a field the writer reads with block_data[...].
MalformedBlock(h) == [NodeBlock(h) EXCEPT !.wellformed = FALSE]

\* The payload with "addresses": [] in the scriptPubKey of its first output.
EmptyAddressBlock(data) ==
    [data EXCEPT !.tx[1].addresses[1] = Present(<< >>)]

\* What getblock answers for height h: the node has the next block by the
\* time it is asked, but for the last block of the chain.
NodePayload(h) == IF h < MaxHeight THEN NodeBlock(h) ELSE TipBlock(h)

\* The payloads a result of getblock can carry.
Payloads(h) ==
    {NodePayload(h), MalformedBlock(h), EmptyAddressBlock(NodePayload(h))}

\* The responses the node can give to a per-height call: pruned data is
\* reported only for heights below the node's prune height, and block data
\* below it is gone.
HashResponses(h) ==
    {"result", "error_other", "http_error", "bad_json"}
        \cup (IF h < prune THEN {"error_pruned"} ELSE {})

BlockResponses(h) ==
    {"error_other", "http_error", "bad_json"}
        \cup (IF h < prune THEN {"error_pruned"} ELSE {"result"})

\* ----------------------------------------------------------------------
\* RPC client
\* ----------------------------------------------------------------------
\* _make_rpc_call: the result, or the exception with the words of its message.
\* Only a body with a non-null error field carries the node's error text.
MakeRpcCall(resp) ==
    CASE resp = "result"       -> [ok |-> TRUE,  msg |-> << >>]
      [] resp = "error_pruned" -> [ok |-> FALSE, msg |-> <<"RPC error:", PrunedText>>]
      [] resp = "error_other"  -> [ok |-> FALSE, msg |-> <<"RPC error:", "other">>]
      [] resp = "http_error"   -> [ok |-> FALSE, msg |-> <<"HTTPError">>]
      [] OTHER                 -> [ok |-> FALSE, msg |-> <<"JSONDecodeError">>]

\* "Block not available (pruned data)" in str(e)
IsPrunedError(msg) == \E i \in 1..Len(msg) : msg[i] = PrunedText

\* ----------------------------------------------------------------------
\* The store
\* ----------------------------------------------------------------------
EmptyDb == [blocks |-> {}, transactions |-> {}, inputs |-> {}, outputs |-> {}]

\* A column value: NULL, or a value.
Null == <<"NULL">>
Col(v) == <<"value", v>>

\* dict.get(key) and dict.get(key, default) as a column value
Get(field) == IF field = Absent THEN Null ELSE Col(field[1])
GetOr(field, default) == IF field = Absent THEN Col(default) ELSE Col(field[1])

\* vout['scriptPubKey'].get('addresses', [''])[0]
\*    if 'addresses' in vout['scriptPubKey'] else None
\* The subscript of an empty list raises IndexError.
DeriveAddress(addresses) ==
    IF addresses = Absent
    THEN [raised |-> FALSE, value |-> Null]
    ELSE IF Len(addresses[1]) = 0
         THEN [raised |-> TRUE, value |-> Null]
         ELSE [raised |-> FALSE, value |-> Col(addresses[1][1])]

\* cursor.lastrowid of the next insert into a table
NextId(rows) == IF rows = {} THEN 1 ELSE SetMax({r.id : r \in rows}) + 1

\* _get_last_synced_height: SELECT MAX(height) FROM blocks, 0 for an empty
\* table and 0 when the read fails.
GetLastSyncedHeight(db, read_ok) ==
    IF read_ok /\ db.blocks # {}
    THEN SetMax({b.height : b \in db.blocks})
    ELSE 0

\* What getblockchaininfo came back as: an exception, a result without a
\* pruneheight field, or a result with one.
ProbeOutcome(resp, has_field) ==
    IF ~MakeRpcCall(resp).ok THEN "failed"
    ELSE IF has_field THEN "reported" ELSE "absent"

\* GetPruneHeight without the defaults: the node's prune height whatever
\* the call came back as.
GetPruneHeightNoDefault(resp, has_field, value) == value

\* _get_prune_height: the node's pruneheight field, 0 when the field is
\* absent or the call fails.
GetPruneHeight(resp, has_field, value) ==
    IF MakeRpcCall(resp).ok /\ has_field THEN value ELSE 0

Min(a, b) == IF a <= b THEN a ELSE b

\* StartHeight with min written for max.
StartHeightMin(last, p) == Min(last + 1, p)

\* start_height = max(self.last_synced_height + 1, prune_height)
StartHeight(last, p) == Max(last + 1, p)

\* if current_height <= start_height: "Database is up to date"
UpToDate(current, start) == current <= start

\* ----------------------------------------------------------------------
\* Persistence writer
\* ----------------------------------------------------------------------
\* Number of INSERT statements _store_transaction runs for one transaction.
Statements(tx) == 1 + tx.vin + tx.vout

\* StoreTransaction with the except around each INSERT instead of around
\* the function body: a failing statement is passed over and the remaining
\* rows are written with the lastrowid at hand.
StoreTransactionKeepGoing(db, tx, n, block_id, failAt) ==
    LET tx_id == NextId(db.transactions)
        done(k) == failAt # k
        inBase  == NextId(db.inputs)
        outBase == NextId(db.outputs)
    IN  [db EXCEPT
           !.transactions = @ \cup (IF done(1)
                                    THEN {[id |-> tx_id, block_id |-> block_id, n |-> n,
                                           fee |-> GetOr(tx.fee, 0)]}
                                    ELSE {}),
           !.inputs = @ \cup {[id |-> inBase + i - 1, transaction_id |-> tx_id, n |-> i]
                                 : i \in {j \in 1..tx.vin : done(1 + j)}},
           !.outputs = @ \cup {[id |-> outBase + i - 1, transaction_id |-> tx_id, n |-> i,
                                   address |-> DeriveAddress(tx.addresses[i]).value]
                                 : i \in {j \in 1..tx.vout : done(1 + tx.vin + j)}}]

\* _store_transaction(cursor, tx_data, block_id): the inserts run in order
\* (transaction, inputs, outputs); the statement numbered failAt raises
\* sqlite3.Error (0: none does), which the function catches and answers
\* with False: the rows inserted before it stay in the open transaction.
StoreTransaction(db, tx, n, block_id, failAt) ==
    IF failAt = 1
    THEN db
    ELSE LET tx_id == NextId(db.transactions)
             done(k) == failAt = 0 \/ k < failAt
             inBase  == NextId(db.inputs)
             outBase == NextId(db.outputs)
         IN  [db EXCEPT
                !.transactions = @ \cup {[id |-> tx_id, block_id |-> block_id, n |-> n,
                                           fee |-> GetOr(tx.fee, 0)]},
                !.inputs = @ \cup {[id |-> inBase + i - 1, transaction_id |-> tx_id, n |-> i]
                                      : i \in {j \in 1..tx.vin : done(1 + j)}},
                !.outputs = @ \cup {[id |-> outBase + i - 1, transaction_id |-> tx_id, n |-> i,
                                   address |-> DeriveAddress(tx.addresses[i]).value]
                                      : i \in {j \in 1..tx.vout : done(1 + tx.vin + j)}}]

\* for tx in block_data.get('tx', []): self._store_transaction(cursor, tx, block_id)
\* (the return value is not looked at)
RECURSIVE StoreTransactions(_, _, _, _, _)
StoreTransactions(db, txs, i, block_id, fails) ==
    IF i > Len(txs)
    THEN db
    ELSE StoreTransactions(StoreTransaction(db, txs[i], i, block_id, fails[i]),
                           txs, i + 1, block_id, fails)

\* InsertBlock with INSERT OR REPLACE INTO blocks: the row of a height
\* already stored gives way to the new one.
InsertBlockReplace(db, data, fails) ==
    LET block_id == NextId(db.blocks)
        withBlock == [db EXCEPT !.blocks = {b \in @ : b.height # data.height}
                                             \cup {[id |-> block_id, height |-> data.height,
                                   previous_hash |-> Get(data.previousblockhash),
                                   next_hash |-> Get(data.nextblockhash)]}]
    IN  StoreTransactions(withBlock, data.tx, 1, block_id, fails)

\* _store_block up to conn.commit(): the block row, then its transactions.
InsertBlock(db, data, fails) ==
    LET block_id == NextId(db.blocks)
        withBlock == [db EXCEPT !.blocks = @ \cup {[id |-> block_id, height |-> data.height,
                                   previous_hash |-> Get(data.previousblockhash),
                                   next_hash |-> Get(data.nextblockhash)]}]
    IN  StoreTransactions(withBlock, data.tx, 1, block_id, fails)

\* The parameters of an output's INSERT are evaluated when its turn comes:
\* _store_transaction raises IndexError when it reaches an output with an
\* empty address list (no earlier statement of it having failed).
Raises(tx, failAt) ==
    \E k \in 1..tx.vout :
       /\ DeriveAddress(tx.addresses[k]).raised
       /\ failAt = 0 \/ failAt >= 1 + tx.vin + k

\* The exception is not an sqlite3.Error: it leaves _store_transaction and
\* _store_block, whichever transaction raised it.
BlockRaises(data, fails) ==
    \E i \in 1..Len(data.tx) : Raises(data.tx[i], fails[i])

\* The failure points of one block's nested inserts.
FailChoices(data) ==
    LET most == SetMax({Statements(data.tx[i]) : i \in 1..Len(data.tx)})
    IN  {f \in [1..Len(data.tx) -> 0..most] :
            \A i \in 1..Len(data.tx) : f[i] <= Statements(data.tx[i])}

NoFailure(data) == [i \in 1..Len(data.tx) |-> 0]

\* The number of transactions of the block with a failing statement.
Failing(fails) == Cardinality({i \in DOMAIN fails : fails[i] # 0})

\* ----------------------------------------------------------------------
\* What "stored" means
\* ----------------------------------------------------------------------
HasBlock(db, h) == \E b \in db.blocks : b.height = h

\* The row set of block row b is complete for the payload of its height.
CompleteBlock(db, b) ==
    LET data == NodeBlock(b.height)
    IN  \A i \in 1..Len(data.tx) :
          \E t \in db.transactions :
             /\ t.block_id = b.id /\ t.n = i
             /\ \A k \in 1..data.tx[i].vin :
                   \E r \in db.inputs : r.transaction_id = t.id /\ r.n = k
             /\ \A k \in 1..data.tx[i].vout :
                   \E r \in db.outputs : r.transaction_id = t.id /\ r.n = k

FullyStored(db, h) == \E b \in db.blocks : b.height = h /\ CompleteBlock(db, b)

PartlyStored(db, h) == \E b \in db.blocks : b.height = h /\ ~CompleteBlock(db, b)

\* No row at all that belongs to a block of height h.
NothingStored(db, h) == ~HasBlock(db, h)

\* ----------------------------------------------------------------------
\* Initial state: a provisioned, empty bitcoin.db; BlockchainSync.__init__
\* has read the store; the node is anywhere on its chain.
\* ----------------------------------------------------------------------
Event(kind, h) == [kind |-> kind, h |-> h, rows_failed |-> FALSE]

\* What a pass started from: the tracked height, the chain tip, the number
\* of block rows; whether its loop ran; until the loop's first call, the
\* height the pass before it broke at.
NoPass == [H |-> 0, C |-> 0, rows |-> 0, looped |-> FALSE, retry |-> 0,
           fresh |-> FALSE, probe |-> "none"]

Init ==
    /\ store = EmptyDb
    /\ txn = EmptyDb
    /\ last_synced_height = GetLastSyncedHeight(EmptyDb, TRUE)
    /\ pc = "Idle"
    /\ current_height = 0
    /\ prune_height = 0
    /\ start_height = 0
    /\ height = 0
    /\ block_data = NodeBlock(0)
    /\ calls = << >>
    /\ chain \in 1..MaxHeight
    /\ prune \in 0..chain
    /\ restarts = 0
    /\ faults = 0
    /\ ev = Event("init", 0)
    /\ pass = NoPass
    /\ skipped = {}

\* ----------------------------------------------------------------------
\* sync_latest_blocks, step by step
\* ----------------------------------------------------------------------
\* self.last_synced_height = height, in the success branch
AdvanceStored(last, h) == h

\* AdvanceSkipped with the assignment left out.
AdvanceSkippedStale(last, h) == last

\* self.last_synced_height = height, in the pruned-data branch
AdvanceSkipped(last, h) == h

\* LoopAt for a loop that asks for the next height while the one at hand is
\* still to be stored: it takes h + 1 where it should take h.
LoopAtAhead(h) ==
    IF h + 1 <= current_height
    THEN /\ height' = h + 1
         /\ pc' = "GetBlockHash"
    ELSE /\ height' = height
         /\ pc' = "Idle"

\* for height in range(start_height, current_height + 1): the loop takes
\* height h, or is over.
LoopAt(h) ==
    IF h <= current_height
    THEN /\ height' = h
         /\ pc' = "GetBlockHash"
    ELSE /\ height' = height
         /\ pc' = "Idle"

\* Break with continue in the place of break: the loop goes on with the
\* next height.
BreakContinues(kind) ==
    /\ ev' = Event(kind, height)
    /\ IF height < current_height
       THEN pc' = "GetBlockHash" /\ height' = height + 1
       ELSE pc' = "Idle" /\ height' = height
    /\ UNCHANGED <<last_synced_height, skipped>>

\* break
Break(kind) ==
    /\ ev' = Event(kind, height)
    /\ pc' = "Idle"
    /\ UNCHANGED <<last_synced_height, skipped, height>>

\* HandleException with a retry in the place of break: the loop asks for
\* the same height again.
HandleExceptionRetries(msg) ==
    IF IsPrunedError(msg)
    THEN /\ last_synced_height' = AdvanceSkipped(last_synced_height, height)
         /\ skipped' = skipped \cup {height}
         /\ ev' = Event("skipped", height)
         /\ LoopAt(height + 1)
    ELSE /\ ev' = Event("failed", height)
         /\ pc' = "GetBlockHash"
         /\ UNCHANGED <<last_synced_height, skipped, height>>

\* except Exception as e, inside the loop: a pruned-data message skips the
\* height, any other one breaks out of the loop.
HandleException(msg) ==
    IF IsPrunedError(msg)
    THEN /\ last_synced_height' = AdvanceSkipped(last_synced_height, height)
         /\ skipped' = skipped \cup {height}
         /\ ev' = Event("skipped", height)
         /\ LoopAt(height + 1)
    ELSE Break("failed")

\* A KeyError or IndexError raised while the payload is written: the with
\* block rolls back, and the exception reaches the except of the loop.
MappingFailure(class) ==
    /\ txn' = store
    /\ IF IsPrunedError(<<class>>)
       THEN HandleException(<<class>>)
       ELSE Break("map_failed")

\* The pass before this one broke at a height (and no restart came between).
BrokeAt == IF ev.kind \in {"failed", "map_failed", "store_failed"} THEN ev.h ELSE 0

\* current_height = self._make_rpc_call('getblockcount'); a failure goes to
\* the outer except, which logs it and ends the pass.
GetBlockCount ==
    /\ pc = "Idle"
    /\ \E resp \in RpcResponses \ {"error_pruned"} :
          /\ calls' = << <<"getblockcount", 0>> >>
          /\ pass' = [H |-> last_synced_height, C |-> chain,
                      rows |-> Cardinality(store.blocks), looped |-> FALSE,
                      retry |-> BrokeAt,
                      fresh |-> ev.kind \in {"init", "restart"},
                      probe |-> "none"]
          /\ IF MakeRpcCall(resp).ok
             THEN /\ current_height' = chain
                  /\ pc' = "GetPruneHeight"
                  /\ ev' = Event("started", 0)
             ELSE /\ current_height' = 0
                  /\ pc' = "Idle"
                  /\ ev' = Event("sync_failed", 0)
    \* the locals of a new call hold nothing yet
    /\ prune_height' = 0
    /\ start_height' = 0
    /\ height' = 0
    /\ block_data' = NodeBlock(0)
    /\ UNCHANGED <<store, txn, last_synced_height, chain, prune, restarts,
                   faults, skipped>>

\* prune_height = self._get_prune_height(); start_height = max(...); the
\* up-to-date test; entry into the loop.
DetermineRange ==
    /\ pc = "GetPruneHeight"
    /\ \E resp \in RpcResponses \ {"error_pruned"}, has_field \in BOOLEAN :
          LET p == GetPruneHeight(resp, has_field, prune)
              s == StartHeight(last_synced_height, p)
          IN  /\ calls' = Append(calls, <<"getblockchaininfo", 0>>)
              /\ prune_height' = p
              /\ start_height' = s
              /\ IF UpToDate(current_height, s)
                 THEN /\ pc' = "Idle"
                      /\ ev' = Event("uptodate", 0)
                      /\ pass' = [pass EXCEPT !.probe = ProbeOutcome(resp, has_field)]
                      /\ UNCHANGED <<height, skipped>>
                 ELSE /\ LoopAt(s)
                      /\ ev' = Event("looping", s)
                      /\ pass' = [pass EXCEPT !.looped = TRUE,
                                               !.probe = ProbeOutcome(resp, has_field)]
                      /\ skipped' = skipped \cup ((last_synced_height + 1)..(s - 1))
    /\ UNCHANGED <<store, txn, last_synced_height, current_height, block_data,
                   chain, prune, restarts, faults>>

\* block_hash = self._make_rpc_call('getblockhash', [height])
GetBlockHash ==
    /\ pc = "GetBlockHash"
    /\ \E resp \in HashResponses(height) :
          LET r == MakeRpcCall(resp)
          IN  /\ calls' = Append(calls, <<"getblockhash", height>>)
              /\ IF r.ok
                 THEN /\ pc' = "GetBlock"
                      /\ ev' = Event("hash", height)
                      /\ UNCHANGED <<last_synced_height, skipped, height>>
                 ELSE HandleException(r.msg)
    /\ pass' = [pass EXCEPT !.retry = 0, !.fresh = FALSE, !.probe = "none"]
    /\ UNCHANGED <<store, txn, current_height, prune_height, start_height,
                   block_data, chain, prune, restarts, faults>>

\* block_data = self._make_rpc_call('getblock', [block_hash, 2])
GetBlock ==
    /\ pc = "GetBlock"
    /\ \E resp \in BlockResponses(height), data \in Payloads(height) :
          LET r == MakeRpcCall(resp)
          IN  /\ calls' = Append(calls, <<"getblock", height>>)
              /\ IF r.ok
                 THEN /\ pc' = "StoreBlock"
                      /\ block_data' = data
                      /\ ev' = Event("block", height)
                      /\ UNCHANGED <<last_synced_height, skipped, height>>
                 ELSE /\ HandleException(r.msg)
                      /\ UNCHANGED block_data
    /\ UNCHANGED <<store, txn, current_height, prune_height, start_height,
                   chain, prune, restarts, faults, pass>>

\* _store_block, the inserts: a payload without a required field raises
\* KeyError, and an output with an empty address list IndexError, which
\* leaves the with block (rollback) and reaches the loop's except; a failing
\* block INSERT is rolled back and answered with False (break); otherwise
\* the rows wait for the commit.
StoreBlock ==
    /\ pc = "StoreBlock"
    /\ \/ /\ ~block_data.wellformed
          /\ MappingFailure("KeyError")
          /\ UNCHANGED <<faults, block_data>>
       \/ /\ block_data.wellformed
          /\ txn' = store
          /\ Break("store_failed")
          /\ block_data' = NodeBlock(0)
          /\ UNCHANGED faults
       \/ /\ block_data.wellformed
          /\ Cardinality(store.blocks) < MaxBlockRows
          /\ \E fails \in FailChoices(block_data) :
                /\ faults + Failing(fails) <= MaxFaults
                /\ faults' = faults + Failing(fails)
                /\ IF BlockRaises(block_data, fails)
                   THEN MappingFailure("IndexError")
                   ELSE /\ txn' = InsertBlock(store, block_data, fails)
                        /\ ev' = [Event("inserted", height) EXCEPT
                                     !.rows_failed = (fails # NoFailure(block_data))]
                        /\ pc' = "Commit"
                        /\ UNCHANGED <<last_synced_height, skipped, height>>
          /\ UNCHANGED block_data
    /\ UNCHANGED <<store, current_height, prune_height, start_height,
                   calls, chain, prune, restarts, pass>>

\* conn.commit() and return True, then self.last_synced_height = height; a
\* failing commit is rolled back and answered with False (break).
Commit ==
    /\ pc = "Commit"
    /\ \/ /\ store' = txn
          /\ last_synced_height' = AdvanceStored(last_synced_height, height)
          /\ ev' = [ev EXCEPT !.kind = "stored"]
          /\ LoopAt(height + 1)
          /\ UNCHANGED <<txn, skipped>>
       \/ /\ txn' = store
          /\ Break("store_failed")
          /\ UNCHANGED store
    \* the payload is not read again once _store_block has returned
    /\ block_data' = NodeBlock(0)
    /\ UNCHANGED <<current_height, prune_height, start_height,
                   calls, chain, prune, restarts, faults, pass>>

\* The process is stopped (anywhere in a pass or between passes) and started
\* again: the open transaction is lost, __init__ reads the store.
Restart ==
    /\ restarts < MaxRestarts
    /\ restarts' = restarts + 1
    /\ txn' = store
    /\ pc' = "Idle"
    /\ \E read_ok \in BOOLEAN :
          /\ ~read_ok => faults < MaxFaults
          /\ faults' = IF read_ok THEN faults ELSE faults + 1
          /\ last_synced_height' = GetLastSyncedHeight(store, read_ok)
    /\ ev' = Event("restart", 0)
    \* a new process: no call of sync_latest_blocks has run in it
    /\ current_height' = 0
    /\ prune_height' = 0
    /\ start_height' = 0
    /\ height' = 0
    /\ block_data' = NodeBlock(0)
    /\ calls' = << >>
    /\ pass' = NoPass
    /\ UNCHANGED <<store, chain, prune, skipped>>

\* The node extends its chain, between passes or during one (a pass reads
\* the tip once, at getblockcount).
NodeMine ==
    /\ chain < MaxHeight
    /\ chain' = chain + 1
    /\ UNCHANGED <<store, txn, last_synced_height, pc, current_height,
                   prune_height, start_height, height, block_data, calls, prune,
                   restarts, faults, ev, pass, skipped>>

\* The node prunes one more block.
NodePrune ==
    /\ prune < chain
    /\ prune' = prune + 1
    /\ UNCHANGED <<store, txn, last_synced_height, pc, current_height,
                   prune_height, start_height, height, block_data, calls, chain,
                   restarts, faults, ev, pass, skipped>>

Next ==
    \/ GetBlockCount
    \/ DetermineRange
    \/ GetBlockHash
    \/ GetBlock
    \/ StoreBlock
    \/ Commit
    \/ Restart
    \/ NodeMine
    \/ NodePrune

Spec == Init /\ [][Next]_vars

\* A step of a pass that has begun: every RPC call and every store write
\* returns or fails, so the step that waits for one is taken.
PassStep == DetermineRange \/ GetBlockHash \/ GetBlock \/ StoreBlock \/ Commit

FairSpec == Spec /\ WF_vars(PassStep)

\* ----------------------------------------------------------------------
\* Properties
\* ----------------------------------------------------------------------
\* A call of sync_latest_blocks that got the chain height has returned.
PassEnded ==
    /\ pc = "Idle"
    /\ ev.kind \in {"uptodate", "stored", "skipped", "failed", "map_failed",
                  "store_failed"}

\* The block row inserted last.
NewestBlock(db) == CHOOSE b \in db.blocks : \A c \in db.blocks : c.id <= b.id

\* The greatest height whose block row and nested rows are all in the
\* store; 0 when there is none.
MaxFullyStored(db) ==
    LET full == {h \in Heights : FullyStored(db, h)}
    IN  IF full = {} THEN 0 ELSE SetMax(full)

ProbeCalls == << <<"getblockcount", 0>>, <<"getblockchaininfo", 0>> >>

\* A step of the engine (not of the node).
EngineStep == ev' # ev \/ calls' # calls

\* C1: after a call of _store_block, either the Block row and all the
\* Transaction/Input/Output rows of the payload are in the store or none of
\* them is; after a call in which a nested insert failed, the Height Tracker
\* reads a height strictly below the block's height.
C1_AtomicBlockCommit ==
    /\ ev.kind = "stored" => CompleteBlock(store, NewestBlock(store))
    /\ ev.kind = "store_failed" => txn = store
    /\ (ev.kind = "stored" /\ ev.rows_failed)
          => GetLastSyncedHeight(store, TRUE) < ev.h

\* C2: in every state the tracked last synced height equals the maximum
\* height whose Block row and nested rows all exist in the store (0 for
\* none); it never names an absent or partly stored block.
C2_TrackedIsMaxFullyStored ==
    last_synced_height = MaxFullyStored(store)

\* C3: a pass that starts at tracked height H with reported chain height
\* C > H ends with tracked height H', H <= H' <= C, and every height in
\* (H, H'] is fully stored or was skipped because of pruning, none of them
\* partly stored.
C3_MonotonicResume ==
    (PassEnded /\ current_height > pass.H) =>
        /\ pass.H <= last_synced_height
        /\ last_synced_height <= current_height
        /\ \A h \in (pass.H + 1)..last_synced_height :
              /\ FullyStored(store, h) \/ h \in skipped
              /\ ~PartlyStored(store, h)

\* C4: when getblockhash, getblock, mapping or storing for height h fails
\* with anything but a pruned-data error, the pass stops there: nothing
\* above h is fetched, the tracked height stays below h, and the loop of the
\* next pass begins at h.
C4_StopOnFailure ==
    /\ (\/ ev.kind \in {"failed", "map_failed", "store_failed"}
        \/ (ev.kind = "stored" /\ ev.rows_failed))
          => /\ pc = "Idle"
             /\ last_synced_height < ev.h
             /\ \A i \in 1..Len(calls) : calls[i][2] <= ev.h
    /\ (ev.kind = "looping" /\ pass.retry # 0) => ev.h = pass.retry

\* C5: a pruned-data error at height h is a skip: the tracked height becomes
\* h, no row is stored, and the loop goes on with h + 1 (the pass being over
\* when h was the last height of the range).
C5_PrunedSkipAdvances ==
    [][(ev'.kind = "skipped" /\ ev' # ev) =>
          /\ ev'.h = height
          /\ last_synced_height' = height
          /\ store' = store
          /\ txn' = txn
          /\ IF height < current_height
             THEN pc' = "GetBlockHash" /\ height' = height + 1
             ELSE pc' = "Idle"]_vars

C5_Witness ==
    /\ ev.kind = "skipped" /\ ev.h = 1
    /\ pc = "GetBlockHash" /\ height = 2
    /\ last_synced_height = 1
    /\ ~HasBlock(store, 1)

\* C6: when the node reports pruneheight = P, a pass that starts with the
\* tracked height below P ends with the tracked height at least P, and with
\* no Block row for a height it skipped.
C6_PruningSkip ==
    (PassEnded /\ pass.H < prune_height) =>
        /\ last_synced_height >= prune_height
        /\ \A h \in (pass.H + 1)..last_synced_height :
              h \in skipped => ~HasBlock(store, h)

\* C7: the lastSynced value a pass computes startHeight from is the Height
\* Tracker's value, read from the store at that moment.
C7_StartFromStore ==
    ev.kind \in {"looping", "uptodate"} =>
        start_height = StartHeight(GetLastSyncedHeight(store, TRUE), prune_height)

\* C8: referential integrity: every Transaction row of the store references
\* an existing Block row, every Input and Output row an existing
\* Transaction row.
C8_ReferentialIntegrity ==
    /\ \A t \in store.transactions : \E b \in store.blocks : b.id = t.block_id
    /\ \A r \in store.inputs : \E t \in store.transactions : t.id = r.transaction_id
    /\ \A r \in store.outputs : \E t \in store.transactions : t.id = r.transaction_id

\* A pass has ended after a block was committed with a nested insert
\* failed, rows of each table being in the store.
C8_Witness ==
    /\ PassEnded
    /\ \E h \in Heights : PartlyStored(store, h)
    /\ store.transactions # {}
    /\ store.inputs # {}
    /\ store.outputs # {}

\* C9: a pass that starts with the tracked height equal to the chain height
\* issues getblockcount and getblockchaininfo and no other call (only
\* getblockcount when that call fails), and leaves the store and the tracked
\* height as they were.
C9_IdleConvergence ==
    [][(EngineStep /\ ev'.kind # "restart" /\ pass'.H = pass'.C) =>
          /\ store' = store
          /\ last_synced_height' = last_synced_height
          /\ ev'.kind \in {"started", "sync_failed", "uptodate"}
          /\ ev'.kind = "started" => calls' = SubSeq(ProbeCalls, 1, 1)
          /\ ev'.kind = "sync_failed" => calls' = SubSeq(ProbeCalls, 1, 1)
          /\ ev'.kind = "uptodate" => calls' = ProbeCalls]_vars

C9_Witness ==
    /\ pc = "Idle"
    /\ ev.kind = "uptodate"
    /\ pass.H = pass.C
    /\ last_synced_height = chain
    /\ HasBlock(store, chain)
    /\ calls = ProbeCalls

\* C10: from an empty store, with getblockcount = C >= 1, pruneheight = 0
\* and valid blocks for 1..C, one pass leaves Block rows for exactly the
\* heights 1..C, the tracked height at C, and for each block as many
\* Transaction rows as its tx array has elements.
C10_FullCatchUp ==
    (/\ pc = "Idle"
     /\ ev.kind \in {"uptodate", "stored"}
     /\ pass.rows = 0 /\ pass.H = 0 /\ pass.C >= 1
     /\ prune = 0 /\ faults = 0 /\ skipped = {}) =>
        /\ {b.height : b \in store.blocks} = 1..pass.C
        /\ last_synced_height = pass.C
        /\ \A b \in store.blocks :
              Cardinality({t \in store.transactions : t.block_id = b.id})
                 = Len(NodeBlock(b.height).tx)

\* C11: when the write or the commit of the block at height h fails with a
\* database error, the pass is over with the tracked height below h and no
\* row of that block in the store: a write in which an insert failed is
\* never committed, and the loop of the next pass begins at h.
C11_StoreFailureAborts ==
    /\ ev.rows_failed => ev.kind # "stored"
    /\ ev.kind = "store_failed" =>
          /\ pc = "Idle"
          /\ last_synced_height < ev.h
          /\ txn = store
    /\ (ev.kind = "looping" /\ pass.retry # 0) => ev.h = pass.retry

\* C12: the engine never hands the writer a height for which a Block row
\* exists, whatever passes and restarts came before (a restart whose read of
\* the store failed included), and no height has two Block rows.
C12_NoDuplicateHeight ==
    /\ pc = "StoreBlock" => ~HasBlock(store, height)
    /\ \A b, c \in store.blocks : b.height = c.height => b = c

\* C13: the synchronizer only adds rows: every row that is in the store
\* before a step is in it, unchanged, after the step, whether a pass stores,
\* skips, fails or the process restarts.
C13_AppendOnly ==
    [][/\ store.blocks \subseteq store'.blocks
       /\ store.transactions \subseteq store'.transactions
       /\ store.inputs \subseteq store'.inputs
       /\ store.outputs \subseteq store'.outputs]_vars

\* A second block row of a height has been committed after a restart, the
\* rows of the first one standing beside it.
C13_Witness ==
    /\ ev.kind = "stored"
    /\ restarts > 0
    /\ \E b, c \in store.blocks : b.height = c.height /\ b.id < c.id
    /\ store.transactions # {}

C15_GenesisSentinel ==
    /\ GetLastSyncedHeight(store, TRUE) = GetLastSyncedHeight(EmptyDb, TRUE)
          => store.blocks = {}
    /\ (/\ ev.kind \in {"looping", "uptodate"}
        /\ pass.fresh /\ pass.rows = 0 /\ prune_height = 0)
          => /\ pass.H = 0 - 1
             /\ start_height = 0

\* C16: after the process was stopped at any point of a pass and started
\* again, every Block row of the store has all its nested rows, the tracked
\* height is the maximum stored height, and the first pass computes its
\* start height as max(stored maximum + 1, prune height).
C16_RestartFromStore ==
    /\ ev.kind = "restart" =>
          /\ \A b \in store.blocks : CompleteBlock(store, b)
          /\ last_synced_height = GetLastSyncedHeight(store, TRUE)
    /\ (ev.kind \in {"looping", "uptodate"} /\ pass.fresh /\ restarts > 0)
          => start_height
                = Max(GetLastSyncedHeight(store, TRUE) + 1, prune_height)

\* C17: a missing optional field is stored as NULL, never as 0, '' or
\* another stand-in: the rows a write has inserted have NULL in
\* previous_hash / next_hash when the payload has no previousblockhash /
\* nextblockhash, in fee when the transaction has no fee, and in address
\* when the output's script has no address list.
C17_MissingFieldsNull ==
    pc = "Commit" =>
        /\ \A b \in txn.blocks \ store.blocks :
              /\ block_data.previousblockhash = Absent => b.previous_hash = Null
              /\ block_data.nextblockhash = Absent => b.next_hash = Null
        /\ \A t \in txn.transactions \ store.transactions :
              /\ block_data.tx[t.n].fee = Absent => t.fee = Null
              /\ \A r \in txn.outputs \ store.outputs :
                    (/\ r.transaction_id = t.id
                     /\ block_data.tx[t.n].addresses[r.n] = Absent)
                        => r.address = Null

\* C18: the address stored for an output is the first element of its
\* script's address list when the list has one, NULL when the list is
\* missing or empty, and deriving it never makes the write of the block
\* fail: a payload with all its required fields is not rejected.
C18_AddressDerivation ==
    /\ ev.kind = "map_failed" => ~block_data.wellformed
    /\ pc = "Commit" =>
          \A t \in txn.transactions \ store.transactions :
             \A r \in txn.outputs \ store.outputs :
                r.transaction_id = t.id =>
                   LET a == block_data.tx[t.n].addresses[r.n]
                   IN  r.address = IF a # Absent /\ Len(a[1]) >= 1
                                   THEN Col(a[1][1])
                                   ELSE Null

\* C19: no failure inside a pass ends the process: whichever call or write
\* failed, and with whatever kind of error, the pass is over with the
\* tracked height where it last advanced (below the height that failed),
\* and the engine is idle, so that a later pass can run and retry.
C19_NoFatalFailure ==
    (\/ ev.kind \in {"sync_failed", "failed", "map_failed", "store_failed"}
     \/ (ev.kind = "stored" /\ ev.rows_failed))
        => /\ pc = "Idle"
           /\ IF ev.kind = "sync_failed"
              THEN last_synced_height = pass.H
              ELSE last_synced_height < ev.h

\* C20: a pass returns at the up-to-date test, without a fetch or a store,
\* only when nothing is left to do: there is no height from start_height to
\* the chain height that has neither been stored nor been skipped.
C20_UpToDateIsTrue ==
    ev.kind = "uptodate" =>
        \A h \in start_height..current_height :
            HasBlock(store, h) \/ h \in skipped

\* The i-th call of the pass is a call for a height.
PerHeight(i) == calls[i][1] \in {"getblockhash", "getblock"}

\* C21: within a pass the heights are taken one at a time, in increasing
\* order, from start_height to the chain height; for a height the order is
\* getblockhash, getblock, store, advance of the tracked height; and no call
\* for a height is issued before the height below it has been stored or
\* skipped.
C21_StrictOrder ==
    /\ \A i \in 1..Len(calls) :
          PerHeight(i) =>
             /\ calls[i][2] \in start_height..current_height
             /\ calls[i][2] <= Max(last_synced_height + 1, start_height)
             /\ calls[i][1] = "getblock"
                   => calls[i - 1] = <<"getblockhash", calls[i][2]>>
             /\ calls[i][1] = "getblockhash"
                   => IF PerHeight(i - 1)
                      THEN calls[i][2] = calls[i - 1][2] + 1
                      ELSE calls[i][2] = start_height
    /\ pc \in {"StoreBlock", "Commit"} =>
          /\ calls[Len(calls)] = <<"getblock", height>>
          /\ last_synced_height < height
    /\ ev.kind = "stored" =>
          /\ calls[Len(calls)] = <<"getblock", ev.h>>
          /\ last_synced_height = ev.h

\* The second height of a pass is being written, the first one stored.
C21_Witness ==
    /\ pc = "Commit" /\ height = 2
    /\ calls = ProbeCalls \o << <<"getblockhash", 1>>, <<"getblock", 1>>,
                                 <<"getblockhash", 2>>, <<"getblock", 2>> >>
    /\ HasBlock(store, 1)
    /\ last_synced_height = 1

\* C23: the tracked last synced height never decreases, whatever the passes
\* do (store, skip, fail) and across restarts of the process, where the
\* value is read from the store again.
C23_TrackedNeverDecreases ==
    [][last_synced_height' >= last_synced_height]_vars

\* No call of the pass is for a height below start_height, and no row the
\* pass has written belongs to one.
NoneBelowStart ==
    /\ \A i \in 1..Len(calls) : PerHeight(i) => calls[i][2] >= start_height
    /\ pc \in {"GetBlockHash", "GetBlock", "StoreBlock", "Commit"}
          => height >= start_height
    /\ \A b \in txn.blocks : b.id > pass.rows => b.height >= start_height

\* C22: the step that determines the range takes for prune_height the
\* pruneheight the node reports, 0 when the answer has no such field and 0
\* when getblockchaininfo fails, and sets start_height =
\* max(last_synced_height + 1, prune_height); the step never ends the pass
\* with a failure, whatever the call came back as; and nothing below
\* start_height is fetched or stored in the pass.
C22_RangeDetermination ==
    [][/\ (pc = "GetPruneHeight" /\ ev' # ev /\ ev'.kind # "restart") =>
             /\ ev'.kind \in {"uptodate", "looping"}
             /\ pass'.probe \in {"reported", "absent", "failed"}
             /\ prune_height' = IF pass'.probe = "reported" THEN prune ELSE 0
             /\ start_height' = Max(last_synced_height + 1, prune_height')
             /\ last_synced_height' = last_synced_height
             /\ store' = store
             /\ ev'.kind = "looping" => pc' = "GetBlockHash" /\ height' = start_height'
       /\ NoneBelowStart']_vars

\* getblockchaininfo has failed at a node that prunes: the pass goes on
\* with prune height 0 and takes the height after the tracked one.
C22_Witness ==
    /\ pass.probe = "failed"
    /\ prune > 0
    /\ prune_height = 0
    /\ ev.kind = "looping"
    /\ pc = "GetBlockHash"
    /\ height = last_synced_height + 1

\* How many times the pass has issued the call.
Count(call) == Cardinality({i \in 1..Len(calls) : calls[i] = call})

\* The calls of the pass stay within the range fixed at its start: one
\* getblockhash and one getblock at most for a height, none above the chain
\* height read by getblockcount (whatever the chain has grown to since),
\* one write at most for a height, and the pass is over at a failure.
PassBounded ==
    /\ \A h \in Heights :
          /\ Count(<<"getblockhash", h>>) <= 1
          /\ Count(<<"getblock", h>>) <= 1
    /\ Count(<<"getblockcount", 0>>) <= 1
    /\ Count(<<"getblockchaininfo", 0>>) <= 1
    /\ Cardinality({i \in 1..Len(calls) : calls[i][1] = "getblockhash"})
          <= Max(current_height - start_height + 1, 0)
    /\ \A i \in 1..Len(calls) : calls[i][2] <= current_height
    /\ pc # "Idle" => current_height = pass.C /\ height <= current_height
    /\ pass.looped =>
          \A b, c \in txn.blocks :
             (b.id > pass.rows /\ c.id > pass.rows /\ b.height = c.height) => b = c
    /\ ev.kind \in {"sync_failed", "failed", "map_failed", "store_failed"}
          => pc = "Idle"

\* C24: every pass ends, each call and each write returning or failing: the
\* loop runs from start_height to the chain height read once at the start
\* of the pass, so it has at most current_height - start_height + 1
\* iterations, each with one getblockhash, one getblock and one write at
\* most, and a height that failed is not tried again in the pass.
C24_PassTerminates ==
    /\ []PassBounded
    /\ (pc # "Idle") ~> (pc = "Idle")

\* A pass has ended at the failure of getblock for height 1, with height 2
\* of its range left and one call of each kind made.
C24_Witness ==
    /\ pc = "Idle"
    /\ ev.kind = "failed" /\ ev.h = 1
    /\ start_height = 1 /\ current_height = 2
    /\ calls = ProbeCalls \o << <<"getblockhash", 1>>, <<"getblock", 1>> >>

====
